---- MODULE Spec2Model ----
(***************************************************************************)
(* FlipperClient (xplat/Flipper/FlipperClient.cpp): the plugin registry    *)
(* and message dispatcher of the Flipper client.                           *)
(*                                                                         *)
(* State: plugins_ (std::map identifier -> plugin, kept as a sequence      *)
(* sorted by identifier, which is the map's iteration order), connections_ *)
(* (the key set of std::map identifier -> connection), connected_, mutex_  *)
(* (TRUE while a thread holds it), and the positions of the calling        *)
(* threads inside performAndReportError.  The threads run the same code    *)
(* and hold no data of their own between steps, so pc counts the threads   *)
(* at each position.                                                       *)
(*                                                                         *)
(* Every entry point takes mutex_ with a lock_guard and runs its whole     *)
(* body under it, so a body is one atomic step between Lock and the        *)
(* release.  The handler catch (std::exception&) runs after the guard is   *)
(* destroyed, without the mutex: reading connected_ and sending the error  *)
(* message are separate steps.  Writing a log line touches nothing shared  *)
(* and is part of the step before it.  The arguments of a call are local   *)
(* to the calling thread and are drawn when the body runs.                 *)
(*                                                                         *)
(* The module models the default build (FLIPPER_ENABLE_CRASH not set).     *)
(*                                                                         *)
(* `last' records what the most recent step did (the call, the state it    *)
(* started from, the plugin callbacks it invoked in order, the messages it *)
(* handed to the transport in order, the exception that left the body).    *)
(***************************************************************************)
EXTENDS Integers, Sequences, FiniteSets, TLC

\* Bounds of the model.
MaxId == 2
NumThreads == 2
MaxMsgId == 2

Absent == 0
Ids == 1..MaxId            \* plugin identifiers, ordered as std::string keys are
Positions == {"idle", "locked", "catch", "send"}
MsgIds == 1..MaxMsgId      \* values of a message's "id" field

\* A plugin instance: what identifier() and runInBackground() return.  Two
\* instances with the same identifier are different objects.
Plugins == [identifier : Ids, runInBackground : BOOLEAN]
NoPlugin == [identifier |-> Absent, runInBackground |-> FALSE]

\* A plugin callback that throws during a call: which plugin's callback
\* (identifier), and whether the exception derives from std::exception.
NoFail == [id |-> Absent, kind |-> "none"]
FailModes == {NoFail} \cup [id : Ids, kind : {"std", "other"}]

\* Inbound messages: method ("<absent>" when the key is missing), id,
\* params.plugin, params.api, and whether params.method is present.
NoMethod == "<absent>"
Methods == {"getPlugins", "init", "deinit", "execute", "unknownThing"}
NoMessage ==
  [method |-> NoMethod, id |-> Absent, plugin |-> Absent, api |-> Absent,
   call |-> FALSE]
Messages ==
  { m \in [method : Methods \cup {NoMethod}, id : MsgIds \cup {Absent},
           plugin : Ids \cup {Absent}, api : Ids \cup {Absent},
           call : BOOLEAN] :
      /\ m.method \notin {"init", "deinit"} => m.plugin = Absent
      /\ m.method # "execute" => (m.api = Absent /\ m.call = FALSE) }

VARIABLES plugins_, connections_, connected_, mutex_, pc, crashed, last

vars == <<plugins_, connections_, connected_, mutex_, pc, crashed, last>>

----------------------------------------------------------------------------
\* std::map<std::string, std::shared_ptr<FlipperPlugin>> as a sorted sequence.

Keys(m) == { m[i].identifier : i \in 1..Len(m) }

MapHas(m, id) == \E i \in 1..Len(m) : m[i].identifier = id

MapAt(m, id) == m[CHOOSE i \in 1..Len(m) : m[i].identifier = id]

\* m[p.identifier] = p : replaces the mapped value of an existing key, or
\* inserts the entry at its place in key order.
MapPut(m, p) ==
  IF MapHas(m, p.identifier)
    THEN [i \in 1..Len(m) |-> IF m[i].identifier = p.identifier THEN p ELSE m[i]]
    ELSE LET lo == SelectSeq(m, LAMBDA e : e.identifier < p.identifier)
             hi == SelectSeq(m, LAMBDA e : e.identifier > p.identifier)
         IN  lo \o <<p>> \o hi

MapErase(m, id) == SelectSeq(m, LAMBDA e : e.identifier # id)

IsSortedMap(m) ==
  \A i, j \in 1..Len(m) : i < j => m[i].identifier < m[j].identifier

----------------------------------------------------------------------------
\* Events and outbound messages.

\* A plugin callback invoked by the dispatcher.  `replaced' tells, for
\* didConnect, whether connections_ already held an entry for the identifier
\* when the new handle was assigned; `responder' is the id the responder
\* passed to call() is bound to (Absent: a null responder); `entry' tells
\* whether connections_ holds an entry for the identifier while the callback
\* runs.
Ev(kind, p, id, responder, replaced, entry) ==
  [kind |-> kind, plugin |-> p, id |-> id, responder |-> responder,
   replaced |-> replaced, entry |-> entry]

\* plugin->didConnect(conn): the handle was assigned on the line before.
DidConnect(p, replaced) ==
  Ev("didConnect", p, p.identifier, Absent, replaced, TRUE)

\* plugin->didDisconnect(), running with the connection table co.
DidDisconnect(p, co) ==
  Ev("didDisconnect", p, p.identifier, Absent, FALSE, p.identifier \in co)

\* conn->call(...) on the entry found in connections_.
Call(id, responder) == Ev("call", NoPlugin, id, responder, FALSE, TRUE)

\* A message handed to the transport.
Out(kind, id, plugins, text) ==
  [kind |-> kind, id |-> id, plugins |-> plugins, text |-> text]

RefreshPluginsMsg == Out("refreshPlugins", Absent, <<>>, "")
SuccessMsg(id, identifiers) == Out("success", id, identifiers, "")
ErrorResponseMsg(id) == Out("errorResponse", id, <<>>, "Received unknown method")
\* {error: {message: e.what(), stacktrace: "<none>"}}, sent without an id.
ErrorMsg == Out("error", Absent, <<>>, "e.what()")

\* What a body leaves behind: the three fields, the callbacks, the messages,
\* the exception that left the body ("none" when it returned), and whether
\* the process died in it.
Res(pl, co, cn, cb, sent, e, dead) ==
  [plugins |-> pl, connections |-> co, connected |-> cn, cb |-> cb,
   sent |-> sent, exc |-> e, dead |-> dead]

\* The exception a throwing callback raises.
Thrown(f) == IF f.kind = "std" THEN "callback" ELSE "unknown"

----------------------------------------------------------------------------
\* The bodies of the entry points, as functions of the current state.

\* disconnect that invokes the callback and forgets to erase the entry.
disconnectKeepEntry(co, p, f) ==
  IF p.identifier \in co
    THEN [connections |-> co,
          cb |-> <<DidDisconnect(p, co)>>,
          exc |-> IF f.id = p.identifier THEN Thrown(f) ELSE "none"]
    ELSE [connections |-> co, cb |-> <<>>, exc |-> "none"]

\* disconnect in the other order: the callback runs while the entry is still
\* there, and the entry is erased when the callback has returned.
disconnectCallbackFirst(co, p, f) ==
  IF p.identifier \in co
    THEN [connections |->
            IF f.id = p.identifier THEN co ELSE co \ {p.identifier},
          cb |-> <<DidDisconnect(p, co)>>,
          exc |-> IF f.id = p.identifier THEN Thrown(f) ELSE "none"]
    ELSE [connections |-> co, cb |-> <<>>, exc |-> "none"]

\* FlipperClient::disconnect on the connection table co: the entry of the
\* plugin's identifier is erased first, then plugin->didDisconnect() runs on
\* the instance that was passed.
disconnect(co, p, f) ==
  IF p.identifier \in co
    THEN [connections |-> co \ {p.identifier},
          cb |-> <<DidDisconnect(p, co \ {p.identifier})>>,
          exc |-> IF f.id = p.identifier THEN Thrown(f) ELSE "none"]
    ELSE [connections |-> co, cb |-> <<>>, exc |-> "none"]

\* refreshPlugins that sends nothing.
refreshPluginsSilent == <<>>

\* FlipperClient::refreshPlugins: one message; sendMessage does not throw, so
\* its own performAndReportError never reaches a handler.
refreshPlugins == <<RefreshPluginsMsg>>

\* addPlugin without the duplicate test: the assignment replaces the entry.
addPluginOverwrite(p) ==
  Res(MapPut(plugins_, p), connections_, connected_, <<>>,
      IF connected_ THEN <<RefreshPluginsMsg>> ELSE <<>>, "none", FALSE)

\* The lambda of FlipperClient::addPlugin.
addPlugin(p) ==
  IF MapHas(plugins_, p.identifier)
    THEN Res(plugins_, connections_, connected_, <<>>, <<>>, "duplicate", FALSE)
    ELSE Res(MapPut(plugins_, p), connections_, connected_, <<>>,
             IF connected_ THEN refreshPlugins ELSE <<>>, "none", FALSE)

\* removePlugin that erases the registry entry without disconnecting first.
removePluginKeepConnection(p, f) ==
  IF ~MapHas(plugins_, p.identifier)
    THEN Res(plugins_, connections_, connected_, <<>>, <<>>, "notAdded", FALSE)
    ELSE Res(MapErase(plugins_, p.identifier), connections_, connected_,
             <<>>, IF connected_ THEN <<RefreshPluginsMsg>> ELSE <<>>,
             "none", FALSE)

\* removePlugin without the not-found test.
removePluginIgnoreMissing(p, f) ==
  LET co == connections_ \ {p.identifier}
  IN  Res(MapErase(plugins_, p.identifier), co, connected_,
          IF p.identifier \in connections_ THEN <<DidDisconnect(p, co)>>
          ELSE <<>>,
          IF connected_ THEN <<RefreshPluginsMsg>> ELSE <<>>, "none", FALSE)

\* The lambda of FlipperClient::removePlugin.
removePlugin(p, f) ==
  IF ~MapHas(plugins_, p.identifier)
    THEN Res(plugins_, connections_, connected_, <<>>, <<>>, "notAdded", FALSE)
    ELSE LET d == disconnect(connections_, p, f)
         IN  IF d.exc # "none"
               THEN Res(plugins_, d.connections, connected_, d.cb, <<>>,
                        d.exc, FALSE)
               ELSE Res(MapErase(plugins_, p.identifier), d.connections,
                        connected_, d.cb,
                        IF connected_ THEN refreshPlugins ELSE <<>>,
                        "none", FALSE)

\* The loop without the runInBackground test: every plugin is connected.
RECURSIVE StartEvery(_, _, _, _)
StartEvery(i, co, cb, f) ==
  IF i > Len(plugins_)
    THEN [connections |-> co, cb |-> cb, exc |-> "none"]
    ELSE LET p == plugins_[i]
             co2 == co \cup {p.identifier}
             cb2 == Append(cb, DidConnect(p, p.identifier \in co))
         IN  IF f.id = p.identifier
               THEN [connections |-> co2, cb |-> cb2, exc |-> Thrown(f)]
               ELSE StartEvery(i + 1, co2, cb2, f)

\* The loop of FlipperClient::startBackgroundPlugins from the i-th entry of
\* plugins_ on: connections_[id] is assigned a new handle, then didConnect
\* runs; a throwing callback ends the loop.
RECURSIVE StartFrom(_, _, _, _)
StartFrom(i, co, cb, f) ==
  IF i > Len(plugins_)
    THEN [connections |-> co, cb |-> cb, exc |-> "none"]
    ELSE LET p == plugins_[i]
         IN  IF p.runInBackground
               THEN LET co2 == co \cup {p.identifier}
                        cb2 == Append(cb, DidConnect(p, p.identifier \in co))
                    IN  IF f.id = p.identifier
                          THEN [connections |-> co2, cb |-> cb2,
                                exc |-> Thrown(f)]
                          ELSE StartFrom(i + 1, co2, cb2, f)
               ELSE StartFrom(i + 1, co, cb, f)

startBackgroundPlugins(f) == StartFrom(1, connections_, <<>>, f)

\* The lambda of FlipperClient::onConnected.
onConnected(f) ==
  LET s == startBackgroundPlugins(f)
  IN  Res(plugins_, s.connections, TRUE, s.cb, <<>>, s.exc, FALSE)

\* The loop of FlipperClient::onDisconnected from the i-th entry on.
RECURSIVE DisconnectFrom(_, _, _, _)
DisconnectFrom(i, co, cb, f) ==
  IF i > Len(plugins_)
    THEN [connections |-> co, cb |-> cb, exc |-> "none"]
    ELSE LET d == disconnect(co, plugins_[i], f)
         IN  IF d.exc # "none"
               THEN [connections |-> d.connections, cb |-> cb \o d.cb,
                     exc |-> d.exc]
               ELSE DisconnectFrom(i + 1, d.connections, cb \o d.cb, f)

\* The lambda of FlipperClient::onDisconnected.
onDisconnected(f) ==
  LET s == DisconnectFrom(1, connections_, <<>>, f)
  IN  Res(plugins_, s.connections, FALSE, s.cb, <<>>, s.exc, FALSE)

\* responder->success / responder->error through a null unique_ptr (the
\* message had no id): undefined behaviour.  Either the process dies in the
\* dereference, or the call goes through and a response bound to no id
\* reaches the transport.
NullResponder(ub, msg) ==
  IF ub = "crash"
    THEN Res(plugins_, connections_, connected_, <<>>, <<>>, "none", TRUE)
    ELSE Res(plugins_, connections_, connected_, <<>>, <<msg>>, "none", FALSE)

Unchanged(cb, sent, e) ==
  Res(plugins_, connections_, connected_, cb, sent, e, FALSE)

\* The list built from the connected plugins only.
IdentifiersConnected ==
  LET m == SelectSeq(plugins_, LAMBDA e : e.identifier \in connections_)
  IN  [i \in 1..Len(m) |-> m[i].identifier]

\* The identifiers pushed by the getPlugins loop, in iteration order.
Identifiers == [i \in 1..Len(plugins_) |-> plugins_[i].identifier]

\* The getPlugins branch of onMessageReceived.
getPlugins(m, ub) ==
  IF m.id = Absent
    THEN NullResponder(ub, SuccessMsg(Absent, Identifiers))
    ELSE Unchanged(<<>>, <<SuccessMsg(m.id, Identifiers)>>, "none")

\* init without the runInBackground test: every registered plugin connects.
initAnyPlugin(m, f) ==
  IF m.plugin = Absent THEN Unchanged(<<>>, <<>>, "malformed")
  ELSE IF ~MapHas(plugins_, m.plugin)
    THEN Unchanged(<<>>, <<>>, "pluginNotFound")
  ELSE LET plugin == MapAt(plugins_, m.plugin)
       IN  Res(plugins_, connections_ \cup {plugin.identifier}, connected_,
               <<DidConnect(plugin, plugin.identifier \in connections_)>>,
               <<>>,
               IF f.id = plugin.identifier THEN Thrown(f) ELSE "none",
               FALSE)

\* The init branch of onMessageReceived.
init(m, f) ==
  IF m.plugin = Absent THEN Unchanged(<<>>, <<>>, "malformed")
  ELSE IF ~MapHas(plugins_, m.plugin)
    THEN Unchanged(<<>>, <<>>, "pluginNotFound")
  ELSE LET plugin == MapAt(plugins_, m.plugin)
       IN  IF ~plugin.runInBackground
             THEN Res(plugins_, connections_ \cup {plugin.identifier},
                      connected_,
                      <<DidConnect(plugin, plugin.identifier \in connections_)>>,
                      <<>>,
                      IF f.id = plugin.identifier THEN Thrown(f) ELSE "none",
                      FALSE)
             ELSE Unchanged(<<>>, <<>>, "none")

\* deinit without the runInBackground test: every registered plugin
\* disconnects.
deinitAnyPlugin(m, f) ==
  IF m.plugin = Absent THEN Unchanged(<<>>, <<>>, "malformed")
  ELSE IF ~MapHas(plugins_, m.plugin)
    THEN Unchanged(<<>>, <<>>, "pluginNotFound")
  ELSE LET plugin == MapAt(plugins_, m.plugin)
           d == disconnect(connections_, plugin, f)
       IN  Res(plugins_, d.connections, connected_, d.cb, <<>>, d.exc, FALSE)

\* The deinit branch of onMessageReceived.
deinit(m, f) ==
  IF m.plugin = Absent THEN Unchanged(<<>>, <<>>, "malformed")
  ELSE IF ~MapHas(plugins_, m.plugin)
    THEN Unchanged(<<>>, <<>>, "pluginNotFound")
  ELSE LET plugin == MapAt(plugins_, m.plugin)
       IN  IF ~plugin.runInBackground
             THEN LET d == disconnect(connections_, plugin, f)
                  IN  Res(plugins_, d.connections, connected_, d.cb, <<>>,
                          d.exc, FALSE)
             ELSE Unchanged(<<>>, <<>>, "none")

\* execute that looks the identifier up in plugins_ instead of connections_.
executeByPlugin(m) ==
  IF m.api = Absent THEN Unchanged(<<>>, <<>>, "malformed")
  ELSE IF ~MapHas(plugins_, m.api)
    THEN Unchanged(<<>>, <<>>, "connectionNotFound")
  ELSE IF ~m.call THEN Unchanged(<<>>, <<>>, "malformed")
  ELSE Unchanged(<<Call(m.api, m.id)>>, <<>>, "none")

\* The execute branch of onMessageReceived.
execute(m) ==
  IF m.api = Absent THEN Unchanged(<<>>, <<>>, "malformed")
  ELSE IF m.api \notin connections_
    THEN Unchanged(<<>>, <<>>, "connectionNotFound")
  ELSE IF ~m.call THEN Unchanged(<<>>, <<>>, "malformed")
  ELSE Unchanged(<<Call(m.api, m.id)>>, <<>>, "none")

\* An unknown method treated as a failure of the call instead of answered.
unknownMethodThrows(m, ub) == Unchanged(<<>>, <<>>, "malformed")

\* The tail of onMessageReceived: a method that is none of the four.
unknownMethod(m, ub) ==
  IF m.id = Absent
    THEN NullResponder(ub, ErrorResponseMsg(Absent))
    ELSE Unchanged(<<>>, <<ErrorResponseMsg(m.id)>>, "none")

\* The lambda of FlipperClient::onMessageReceived.
onMessageReceived(m, f, ub) ==
  IF m.method = NoMethod THEN Unchanged(<<>>, <<>>, "malformed")
  ELSE IF m.method = "getPlugins" THEN getPlugins(m, ub)
  ELSE IF m.method = "init" THEN init(m, f)
  ELSE IF m.method = "deinit" THEN deinit(m, f)
  ELSE IF m.method = "execute" THEN execute(m)
  ELSE unknownMethod(m, ub)

\* FlipperClient::getPlugin and FlipperClient::hasPlugin: what they return.
getPlugin(id) ==
  IF ~MapHas(plugins_, id) THEN NoPlugin ELSE MapAt(plugins_, id)

hasPlugin(id) == MapHas(plugins_, id)

----------------------------------------------------------------------------
\* The state machine.

NoOp ==
  [name |-> "none", plugin |-> NoPlugin, msg |-> NoMessage, fail |-> NoFail,
   ub |-> "none", id |-> Absent]

Op(name, p, m, f, ub, id) ==
  [name |-> name, plugin |-> p, msg |-> m, fail |-> f, ub |-> ub, id |-> id]

Snapshot ==
  [plugins |-> plugins_, connections |-> connections_,
   connected |-> connected_]

\* The record of a step: `ret' is what getPlugin / hasPlugin returned, a
\* one-element sequence (empty for the other steps).
Step(step, op, cb, sent, e, ret) ==
  [step |-> step, op |-> op, pre |-> Snapshot, cb |-> cb, sent |-> sent,
   exc |-> e, ret |-> ret]

\* One thread moves from position a to position b.
Move(a, b) ==
  IF a = b THEN pc
  ELSE [pc EXCEPT ![a] = pc[a] - 1, ![b] = pc[b] + 1]

Init ==
  /\ plugins_ = <<>>
  /\ connections_ = {}
  /\ connected_ = FALSE
  /\ mutex_ = FALSE
  /\ pc = [q \in Positions |-> IF q = "idle" THEN NumThreads ELSE 0]
  /\ crashed = FALSE
  /\ last = Step("init", NoOp, <<>>, <<>>, "none", <<>>)

\* std::lock_guard<std::mutex> lock(mutex_): a thread enters an entry point
\* and acquires the mutex.
Lock ==
  /\ ~crashed
  /\ pc["idle"] > 0
  /\ ~mutex_
  /\ mutex_' = TRUE
  /\ pc' = Move("idle", "locked")
  /\ last' = Step("lock", NoOp, <<>>, <<>>, "none", <<>>)
  /\ UNCHANGED <<plugins_, connections_, connected_, crashed>>

\* Where performAndReportError continues after the body: it returns, or
\* catch (std::exception&) runs; catch (...) writes its log line and returns.
After(e) == IF e \in {"none", "unknown"} THEN "idle" ELSE "catch"

\* The thread holding the mutex runs the body of a call, with result r; the
\* lock_guard releases the mutex when the body returns or unwinds.
Body(op, r) ==
  /\ ~crashed
  /\ pc["locked"] > 0
  /\ mutex_
  /\ plugins_' = r.plugins
  /\ connections_' = r.connections
  /\ connected_' = r.connected
  /\ crashed' = r.dead
  /\ mutex_' = FALSE
  /\ pc' = Move("locked", After(r.exc))
  /\ last' = Step("body", op, r.cb, r.sent, r.exc, <<>>)

AddPlugin ==
  \E p \in Plugins :
    Body(Op("addPlugin", p, NoMessage, NoFail, "none", Absent), addPlugin(p))

RemovePlugin ==
  \E p \in Plugins, f \in FailModes :
    /\ f.id \in {Absent, p.identifier}
    /\ Body(Op("removePlugin", p, NoMessage, f, "none", Absent),
            removePlugin(p, f))

OnConnected ==
  \E f \in FailModes :
    Body(Op("onConnected", NoPlugin, NoMessage, f, "none", Absent),
         onConnected(f))

OnDisconnected ==
  \E f \in FailModes :
    Body(Op("onDisconnected", NoPlugin, NoMessage, f, "none", Absent),
         onDisconnected(f))

\* The undefined outcomes matter only where a null responder is used.
UsesNullResponder(m) ==
  m.id = Absent /\ m.method \in {"getPlugins", "unknownThing"}

OnMessageReceived ==
  \E m \in Messages, f \in FailModes, ub \in {"none", "crash", "proceed"} :
    /\ f.id = Absent \/ (m.method \in {"init", "deinit"} /\ f.id = m.plugin)
    /\ (ub # "none") <=> UsesNullResponder(m)
    /\ Body(Op("onMessageReceived", NoPlugin, m, f, ub, Absent),
            onMessageReceived(m, f, ub))

\* getPlugin and hasPlugin take the mutex themselves and only read.
Query(op, ret) ==
  /\ ~crashed
  /\ pc["locked"] > 0
  /\ mutex_
  /\ mutex_' = FALSE
  /\ pc' = Move("locked", "idle")
  /\ last' = Step("body", op, <<>>, <<>>, "none", <<ret>>)
  /\ UNCHANGED <<plugins_, connections_, connected_, crashed>>

GetPlugin ==
  \E id \in Ids :
    Query(Op("getPlugin", NoPlugin, NoMessage, NoFail, "none", id),
          getPlugin(id))

HasPlugin ==
  \E id \in Ids :
    Query(Op("hasPlugin", NoPlugin, NoMessage, NoFail, "none", id),
          hasPlugin(id))

\* A handler that sends without testing connected_.
CatchReadAlwaysSend ==
  /\ ~crashed
  /\ pc["catch"] > 0
  /\ pc' = Move("catch", "send")
  /\ last' = Step("catch", NoOp, <<>>, <<>>, "none", <<>>)
  /\ UNCHANGED <<plugins_, connections_, connected_, mutex_, crashed>>

\* catch (std::exception& e): the handler builds the error message and reads
\* connected_ (the mutex is not held here); when it reads false it writes the
\* log line and returns.
CatchRead ==
  /\ ~crashed
  /\ pc["catch"] > 0
  /\ pc' = Move("catch", IF connected_ THEN "send" ELSE "idle")
  /\ last' = Step(IF connected_ THEN "catch" ELSE "log", NoOp, <<>>, <<>>,
                  "none", <<>>)
  /\ UNCHANGED <<plugins_, connections_, connected_, mutex_, crashed>>

\* socket_->sendMessage(message) of the handler.
SendError ==
  /\ ~crashed
  /\ pc["send"] > 0
  /\ pc' = Move("send", "idle")
  /\ last' = Step("send", NoOp, <<>>, <<ErrorMsg>>, "none", <<>>)
  /\ UNCHANGED <<plugins_, connections_, connected_, mutex_, crashed>>

Next ==
  \/ Lock
  \/ AddPlugin
  \/ RemovePlugin
  \/ OnConnected
  \/ OnDisconnected
  \/ OnMessageReceived
  \/ GetPlugin
  \/ HasPlugin
  \/ CatchRead
  \/ SendError

Spec == Init /\ [][Next]_vars

\* A sequential execution: a call starts only when every thread is outside
\* the client.
LockSeq == pc["idle"] = NumThreads /\ Lock

NextSeq ==
  \/ LockSeq
  \/ AddPlugin
  \/ RemovePlugin
  \/ OnConnected
  \/ OnDisconnected
  \/ OnMessageReceived
  \/ GetPlugin
  \/ HasPlugin
  \/ CatchRead
  \/ SendError

SpecSeq == Init /\ [][NextSeq]_vars

TypeOK ==
  /\ IsSortedMap(plugins_)
  /\ \A i \in 1..Len(plugins_) : plugins_[i] \in Plugins
  /\ connections_ \subseteq Ids
  /\ connected_ \in BOOLEAN
  /\ mutex_ \in BOOLEAN
  /\ mutex_ <=> pc["locked"] = 1
  /\ pc["locked"] <= 1
  /\ crashed \in BOOLEAN

----------------------------------------------------------------------------
\* Properties.

\* The step just taken was the body of the named entry point.
Ran(name) == last.step = "body" /\ last.op.name = name

\* The state the body left is the state it started from.
StateUnchanged ==
  /\ plugins_ = last.pre.plugins
  /\ connections_ = last.pre.connections
  /\ connected_ = last.pre.connected

Count(seq, kind) == Cardinality({ i \in DOMAIN seq : seq[i].kind = kind })

EventIds(seq) == { seq[i].id : i \in DOMAIN seq }

Ascending(seq) == \A i, j \in DOMAIN seq : i < j => seq[i].id < seq[j].id

BackgroundIds(m) ==
  { m[i].identifier : i \in { k \in 1..Len(m) : m[k].runInBackground } }

\* C1: under any interleaving of calls from several threads, whenever no
\* thread holds the mutex each identifier appears at most once in plugins_
\* and every identifier with an entry in connections_ has one in plugins_.
C1_RegistryInvariants ==
  ~mutex_ =>
    /\ \A i, j \in 1..Len(plugins_) :
         i # j => plugins_[i].identifier # plugins_[j].identifier
    /\ connections_ \subseteq Keys(plugins_)

\* A plugin that held a connection was removed while another thread was
\* inside its error handler, and connections remain.
C1_Witness ==
  /\ ~mutex_
  /\ pc["send"] > 0
  /\ Ran("removePlugin")
  /\ last.exc = "none"
  /\ last.op.plugin.identifier \in last.pre.connections
  /\ connections_ # {}

\* C2: after an onConnected whose callbacks did not fail, connected_ is true,
\* every registered background plugin has a connection entry and got
\* didConnect exactly once from this call, in ascending identifier order, and
\* nothing was created or invoked for the other plugins.
C2_OnConnected ==
  (Ran("onConnected") /\ last.exc = "none") =>
    LET bg == BackgroundIds(last.pre.plugins)
    IN  /\ connected_
        /\ plugins_ = last.pre.plugins
        /\ bg \subseteq connections_
        /\ connections_ = last.pre.connections \cup bg
        /\ Count(last.cb, "didConnect") = Len(last.cb)
        /\ EventIds(last.cb) = bg
        /\ Len(last.cb) = Cardinality(bg)
        /\ Ascending(last.cb)
        /\ \A k \in DOMAIN last.cb :
             last.cb[k].plugin = MapAt(last.pre.plugins, last.cb[k].id)
        /\ last.sent = <<>>

\* Two background plugins were connected by one onConnected.
C2_Witness ==
  /\ Ran("onConnected")
  /\ last.exc = "none"
  /\ Len(last.cb) = 2
  /\ ~last.pre.connected

\* C3: after an onDisconnected whose callbacks did not fail, connected_ is
\* false, connections_ is empty, didDisconnect ran exactly once on every
\* plugin that had a connection entry and on no other, and plugins_ is
\* unchanged.
C3_OnDisconnected ==
  (Ran("onDisconnected") /\ last.exc = "none") =>
    /\ ~connected_
    /\ connections_ = {}
    /\ plugins_ = last.pre.plugins
    /\ Count(last.cb, "didDisconnect") = Len(last.cb)
    /\ EventIds(last.cb) = last.pre.connections
    /\ Len(last.cb) = Cardinality(last.pre.connections)
    /\ \A k \in DOMAIN last.cb :
         last.cb[k].plugin = MapAt(last.pre.plugins, last.cb[k].id)
    /\ last.sent = <<>>

\* Of two registered plugins, the one with a connection (not a background
\* plugin) was disconnected and the one without was left alone.
C3_Witness ==
  /\ Ran("onDisconnected")
  /\ last.exc = "none"
  /\ Len(last.pre.plugins) = 2
  /\ Len(last.cb) = 1
  /\ ~last.cb[1].plugin.runInBackground
  /\ last.pre.connected

\* C4: a successful addPlugin of a background plugin while connected leaves a
\* connection entry for it and has invoked its didConnect; so whenever the
\* bridge is connected and no call is in progress every registered background
\* plugin has a connection entry.
C4_AddWhileConnectedConnects ==
  /\ (Ran("addPlugin") /\ last.exc = "none" /\ last.pre.connected
        /\ last.op.plugin.runInBackground) =>
       /\ last.op.plugin.identifier \in connections_
       /\ \E k \in DOMAIN last.cb :
            /\ last.cb[k].kind = "didConnect"
            /\ last.cb[k].plugin = last.op.plugin
  /\ (connected_ /\ pc["idle"] = NumThreads) =>
       BackgroundIds(plugins_) \subseteq connections_

\* C5: addPlugin of an identifier that is registered fails as a duplicate and
\* changes nothing: one entry for the identifier, mapped to the instance
\* registered first; connections_ and connected_ as before; no callback, no
\* refreshPlugins.
C5_DuplicateAdd ==
  (Ran("addPlugin") /\ MapHas(last.pre.plugins, last.op.plugin.identifier)) =>
    LET id == last.op.plugin.identifier
    IN  /\ last.exc = "duplicate"
        /\ StateUnchanged
        /\ Cardinality({ i \in 1..Len(plugins_) :
                           plugins_[i].identifier = id }) = 1
        /\ MapAt(plugins_, id) = MapAt(last.pre.plugins, id)
        /\ last.cb = <<>>
        /\ Count(last.sent, "refreshPlugins") = 0

\* A second instance with a registered identifier was added while connected.
C5_Witness ==
  /\ Ran("addPlugin")
  /\ MapHas(last.pre.plugins, last.op.plugin.identifier)
  /\ last.op.plugin # MapAt(last.pre.plugins, last.op.plugin.identifier)
  /\ last.pre.connected
  /\ last.op.plugin.identifier \in last.pre.connections

\* C6: removePlugin of an identifier that is not registered fails as not
\* found and leaves plugins_, connections_ and connected_ as they were, with
\* no callback and no refreshPlugins.
C6_RemoveUnregistered ==
  (Ran("removePlugin")
     /\ ~MapHas(last.pre.plugins, last.op.plugin.identifier)) =>
    /\ last.exc = "notAdded"
    /\ StateUnchanged
    /\ last.cb = <<>>
    /\ Count(last.sent, "refreshPlugins") = 0

\* An unregistered plugin was removed while connected with other plugins
\* registered and connected.
C6_Witness ==
  /\ Ran("removePlugin")
  /\ ~MapHas(last.pre.plugins, last.op.plugin.identifier)
  /\ last.pre.connected
  /\ last.pre.connections # {}

\* The failures C7 lists: duplicate add, remove / init / deinit of an
\* unregistered identifier, execute without a connection, a message missing a
\* required field.
ListedFailures ==
  {"duplicate", "notAdded", "pluginNotFound", "connectionNotFound",
   "malformed"}

\* C7: in a sequential execution a listed failure is caught at the entry
\* point (the body sends nothing and the process goes on in the handler),
\* and the handler sends exactly one standalone error message when connected_
\* is true and nothing when it is false, after which the call has returned.
C7_FailuresContained ==
  /\ (last.step = "body" /\ last.exc \in ListedFailures) =>
       /\ ~crashed
       /\ pc["catch"] = 1
       /\ last.sent = <<>>
       /\ last.cb = <<>>
       /\ StateUnchanged
  /\ pc["catch"] = 1 =>
       (last.step = "body" /\ last.exc \in ListedFailures \cup {"callback"})
  /\ last.step = "catch" =>
       (connected_ /\ pc["send"] = 1 /\ last.sent = <<>>)
  /\ pc["send"] = 1 => last.step = "catch"
  /\ last.step = "send" =>
       (connected_ /\ last.sent = <<ErrorMsg>> /\ pc["idle"] = NumThreads)
  /\ last.step = "log" =>
       (~connected_ /\ last.sent = <<>> /\ pc["idle"] = NumThreads)

\* The handler of a failed call has sent its error message while connected.
C7_Witness ==
  /\ last.step = "send"
  /\ connected_
  /\ last.sent = <<ErrorMsg>>
  /\ pc["idle"] = NumThreads

\* C8: an execute whose params.api has no entry in connections_ (registered
\* or not) fails as connection not found, invokes no callback and changes
\* nothing; when an entry exists, a well-formed execute (params.method
\* present) is forwarded to the connection exactly once, with the responder.
C8_Execute ==
  (Ran("onMessageReceived") /\ last.op.msg.method = "execute"
     /\ last.op.msg.api # Absent) =>
    /\ StateUnchanged
    /\ last.op.msg.api \notin last.pre.connections =>
         (last.exc = "connectionNotFound" /\ last.cb = <<>>
            /\ last.sent = <<>>)
    /\ (last.op.msg.api \in last.pre.connections /\ last.op.msg.call) =>
         /\ last.exc = "none"
         /\ last.cb = <<Call(last.op.msg.api, last.op.msg.id)>>

\* execute named a registered plugin that has no connection, while another
\* plugin has one.
C8_Witness ==
  /\ Ran("onMessageReceived")
  /\ last.op.msg.method = "execute"
  /\ last.op.msg.api # Absent
  /\ MapHas(last.pre.plugins, last.op.msg.api)
  /\ last.op.msg.api \notin last.pre.connections
  /\ last.pre.connections # {}
  /\ last.exc = "connectionNotFound"

\* C9: a step hands refreshPlugins to the transport exactly once when it is
\* a successful addPlugin or removePlugin run while connected_, and never
\* otherwise (a failed or disconnected add or remove, onConnected,
\* onDisconnected, an inbound message, a handler).
C9_RefreshPlugins ==
  Count(last.sent, "refreshPlugins") =
    IF /\ last.step = "body"
       /\ last.op.name \in {"addPlugin", "removePlugin"}
       /\ last.exc = "none"
       /\ last.pre.connected
      THEN 1
      ELSE 0

\* A connected plugin was removed while the bridge was connected.
C9_Witness ==
  /\ Ran("removePlugin")
  /\ last.exc = "none"
  /\ last.pre.connected
  /\ Len(last.cb) = 1
  /\ Count(last.sent, "refreshPlugins") = 1

\* C10: getPlugins with an id yields exactly one success response bound to
\* that id whose identifier list is, as a set, the registered identifiers;
\* plugins_ and connections_ are unchanged.
C10_GetPlugins ==
  (Ran("onMessageReceived") /\ last.op.msg.method = "getPlugins"
     /\ last.op.msg.id # Absent) =>
    /\ last.exc = "none"
    /\ Len(last.sent) = 1
    /\ last.sent[1].kind = "success"
    /\ last.sent[1].id = last.op.msg.id
    /\ { last.sent[1].plugins[i] : i \in DOMAIN last.sent[1].plugins } =
         Keys(last.pre.plugins)
    /\ last.cb = <<>>
    /\ StateUnchanged

\* getPlugins answered with two plugins registered: a background one and a
\* non-background one, one connected and one not.
C10_Witness ==
  /\ Ran("onMessageReceived")
  /\ last.op.msg.method = "getPlugins"
  /\ last.op.msg.id # Absent
  /\ Len(last.sent) = 1
  /\ Len(last.sent[1].plugins) = 2
  /\ Cardinality(last.pre.connections) = 1
  /\ Cardinality(BackgroundIds(last.pre.plugins)) = 1

\* C11: a message with an id whose method is none of getPlugins, init,
\* deinit, execute yields exactly one error response bound to that id,
\* describing the unknown method; no callback runs, the three fields are
\* unchanged, and the call returns without entering the error handler (no
\* standalone error message).
C11_UnknownMethod ==
  (Ran("onMessageReceived") /\ last.op.msg.method = "unknownThing"
     /\ last.op.msg.id # Absent) =>
    /\ last.exc = "none"
    /\ last.sent = <<ErrorResponseMsg(last.op.msg.id)>>
    /\ last.sent[1].kind = "errorResponse"
    /\ last.sent[1].text = "Received unknown method"
    /\ Count(last.sent, "error") = 0
    /\ last.cb = <<>>
    /\ StateUnchanged
    /\ ~crashed

\* An unknown method with an id was answered while plugins were registered
\* and connected.
C11_Witness ==
  /\ Ran("onMessageReceived")
  /\ last.op.msg.method = "unknownThing"
  /\ last.op.msg.id # Absent
  /\ Len(last.sent) = 1
  /\ last.pre.connected
  /\ last.pre.connections # {}

\* C12: a getPlugins message without an id is a failure contained in that
\* message: the body ends in an exception that the handler of
\* performAndReportError reports, the absent responder is never used (no
\* response, no dead process), and the three fields are unchanged, so later
\* messages are still dispatched.
C12_GetPluginsWithoutId ==
  (Ran("onMessageReceived") /\ last.op.msg.method = "getPlugins"
     /\ last.op.msg.id = Absent) =>
    /\ ~crashed
    /\ last.exc \notin {"none", "unknown"}
    /\ pc["catch"] > 0
    /\ last.sent = <<>>
    /\ StateUnchanged

\* C13: a message with an unrecognized method and no id sends nothing and
\* never uses the absent responder: the call returns normally and the
\* dispatcher state is unchanged.
C13_UnknownMethodWithoutId ==
  (Ran("onMessageReceived") /\ last.op.msg.method = "unknownThing"
     /\ last.op.msg.id = Absent) =>
    /\ ~crashed
    /\ last.exc = "none"
    /\ last.sent = <<>>
    /\ last.cb = <<>>
    /\ StateUnchanged

\* C14: init naming a registered plugin: if the plugin does not run in the
\* background, afterwards it has a connection entry and its didConnect ran
\* exactly once; if it does, connections_ is unchanged and no callback ran.
\* No response is sent in either case, with or without an id.  init naming an
\* unregistered identifier fails as plugin not found and changes nothing.
C14_Init ==
  (Ran("onMessageReceived") /\ last.op.msg.method = "init"
     /\ last.op.msg.plugin # Absent) =>
    LET id == last.op.msg.plugin
        registered == MapHas(last.pre.plugins, id)
    IN  /\ last.sent = <<>>
        /\ plugins_ = last.pre.plugins
        /\ connected_ = last.pre.connected
        /\ (registered /\ ~MapAt(last.pre.plugins, id).runInBackground) =>
             /\ id \in connections_
             /\ connections_ = last.pre.connections \cup {id}
             /\ Len(last.cb) = 1
             /\ last.cb[1].kind = "didConnect"
             /\ last.cb[1].plugin = MapAt(last.pre.plugins, id)
        /\ (registered /\ MapAt(last.pre.plugins, id).runInBackground) =>
             /\ connections_ = last.pre.connections
             /\ last.cb = <<>>
             /\ last.exc = "none"
        /\ ~registered =>
             /\ last.exc = "pluginNotFound"
             /\ connections_ = last.pre.connections
             /\ last.cb = <<>>

\* init with an id connected a registered non-background plugin that had no
\* connection.
C14_Witness ==
  /\ Ran("onMessageReceived")
  /\ last.op.msg.method = "init"
  /\ last.op.msg.id # Absent
  /\ last.op.msg.plugin \in connections_ \ last.pre.connections
  /\ last.exc = "none"
  /\ Len(last.pre.plugins) = 2

\* C15: deinit naming a registered plugin: a plugin that does not run in the
\* background loses its connection entry, with exactly one didDisconnect, if
\* it has one, and nothing happens if it has none; a background plugin keeps
\* its entry and gets no callback.  The plugin stays registered and no
\* response is sent in every case.
C15_Deinit ==
  (Ran("onMessageReceived") /\ last.op.msg.method = "deinit"
     /\ last.op.msg.plugin # Absent
     /\ MapHas(last.pre.plugins, last.op.msg.plugin)) =>
    LET id == last.op.msg.plugin
        plugin == MapAt(last.pre.plugins, id)
    IN  /\ last.sent = <<>>
        /\ plugins_ = last.pre.plugins
        /\ connected_ = last.pre.connected
        /\ (~plugin.runInBackground /\ id \in last.pre.connections) =>
             /\ connections_ = last.pre.connections \ {id}
             /\ Len(last.cb) = 1
             /\ last.cb[1].kind = "didDisconnect"
             /\ last.cb[1].plugin = plugin
        /\ (~plugin.runInBackground /\ id \notin last.pre.connections) =>
             /\ connections_ = last.pre.connections
             /\ last.cb = <<>>
             /\ last.exc = "none"
        /\ plugin.runInBackground =>
             /\ connections_ = last.pre.connections
             /\ last.cb = <<>>
             /\ last.exc = "none"

\* deinit with an id dropped the connection of a non-background plugin while
\* a background plugin kept its own.
C15_Witness ==
  /\ Ran("onMessageReceived")
  /\ last.op.msg.method = "deinit"
  /\ last.op.msg.id # Absent
  /\ last.op.msg.plugin \in last.pre.connections \ connections_
  /\ last.exc = "none"
  /\ connections_ # {}

\* C16 as stated: removePlugin of a registered plugin with an active
\* connection invokes didDisconnect exactly once and only then drops the
\* connection entry (the callback runs while the entry is still there), then
\* removes the registry entry, then sends refreshPlugins if connected; with
\* no active connection no callback runs; afterwards neither entry exists.
C16_CallbackBeforeDrop ==
  (Ran("removePlugin")
     /\ MapHas(last.pre.plugins, last.op.plugin.identifier)) =>
    LET id == last.op.plugin.identifier
    IN  /\ id \in last.pre.connections =>
             /\ Len(last.cb) = 1
             /\ last.cb[1].kind = "didDisconnect"
             /\ last.cb[1].entry
        /\ id \notin last.pre.connections => last.cb = <<>>
        /\ last.exc = "none" =>
             /\ ~MapHas(plugins_, id)
             /\ id \notin connections_

\* C16, amended: removePlugin of a registered plugin with an active
\* connection drops the connection entry first, then invokes didDisconnect
\* exactly once (on the instance passed, with the entry already gone), and
\* only when the callback has returned removes the registry entry and sends
\* refreshPlugins if connected; with no active connection no callback runs.
\* When the callback did not fail neither entry exists afterwards; when it
\* failed the connection entry is gone, the registry entry stays and no
\* refreshPlugins is sent.
C16_RemovePluginOrder ==
  (Ran("removePlugin")
     /\ MapHas(last.pre.plugins, last.op.plugin.identifier)) =>
    LET id == last.op.plugin.identifier
    IN  /\ id \in last.pre.connections =>
             /\ Len(last.cb) = 1
             /\ last.cb[1].kind = "didDisconnect"
             /\ last.cb[1].plugin = last.op.plugin
             /\ ~last.cb[1].entry
        /\ id \notin last.pre.connections =>
             (last.cb = <<>> /\ last.exc = "none")
        /\ connections_ = last.pre.connections \ {id}
        /\ connected_ = last.pre.connected
        /\ last.exc = "none" =>
             /\ plugins_ = MapErase(last.pre.plugins, id)
             /\ ~MapHas(plugins_, id)
             /\ last.sent =
                  IF last.pre.connected THEN <<RefreshPluginsMsg>> ELSE <<>>
        /\ last.exc # "none" =>
             /\ plugins_ = last.pre.plugins
             /\ last.sent = <<>>

\* A plugin with an active connection was removed while connected, through
\* an instance other than the registered one, and another plugin stays.
C16_Witness ==
  /\ Ran("removePlugin")
  /\ last.exc = "none"
  /\ last.op.plugin.identifier \in last.pre.connections
  /\ last.op.plugin # MapAt(last.pre.plugins, last.op.plugin.identifier)
  /\ last.pre.connected
  /\ Len(plugins_) = 1

\* C17: over any sequence of operations the dispatcher creates a connection
\* handle for a plugin only when connections_ holds no entry for it: no
\* didConnect is issued with a handle that replaced an existing one (a second
\* onConnected, a second init).
C17_HandleNeverReplaced ==
  \A k \in DOMAIN last.cb :
    last.cb[k].kind = "didConnect" => ~last.cb[k].replaced

\* C18: whenever no operation is in progress, a connection entry exists only
\* if connected_ is true: connections_ is empty while the bridge is
\* disconnected, whatever the order of the operations.
C18_NoConnectionWhileDisconnected ==
  (pc["idle"] = NumThreads /\ ~connected_) => connections_ = {}

\* C19: a callback that fails during a lifecycle event does not keep the
\* event from the other plugins: after an onDisconnected in which a
\* didDisconnect failed, connections_ is empty and every plugin that had a
\* connection got its didDisconnect; after an onConnected in which a
\* didConnect failed, every registered background plugin has a connection
\* entry and got its didConnect.
C19_FailureDoesNotStopTheEvent ==
  /\ (Ran("onDisconnected") /\ last.exc # "none") =>
       /\ connections_ = {}
       /\ EventIds(last.cb) = last.pre.connections
  /\ (Ran("onConnected") /\ last.exc # "none") =>
       /\ BackgroundIds(last.pre.plugins) \subseteq connections_
       /\ EventIds(last.cb) = BackgroundIds(last.pre.plugins)

\* C20: with a failing call on one thread and onConnected / onDisconnected on
\* another, connected_ is accessed only under the mutex, so the handler's
\* test of connected_ and its send are not separated by an onDisconnected:
\* a thread that is about to send the error message, or has just sent it,
\* does so in a state where connected_ is true.
C20_ErrorSentOnlyWhileConnected ==
  /\ pc["send"] > 0 => connected_
  /\ last.step = "send" => last.pre.connected

====
